---- MODULE Spec2Model ----
(***************************************************************************)
(* Git Commit Date Changer (src/my_tui/main.py): the log parser, the date  *)
(* codec and the interactive main loop.                                    *)
(*                                                                         *)
(* Text is modelled as TLA+ strings, handled character by character with   *)
(* Len, SubSeq and \o, so that splitting, stripping, matching, parsing and *)
(* formatting are computed the way the Python code computes them.          *)
(***************************************************************************)
EXTENDS Integers, Sequences, FiniteSets, TLC

VARIABLES
  \* ---- parser run: get_git_log then parse_git_log
  entries,        \* the history the external log command prints
  log_style,      \* entries back to back, or as git separates them
  cmd_outcome,    \* how the external log command ends: ok, failed, timeout
  output_lines,   \* what get_git_log returned
  parse_result,   \* what parse_git_log returned, or the exception it raised
  parser_pc,
  \* ---- codec run: one conversion, then the opposite one
  date_parts,     \* the pieces the input text is written from
  date_in,        \* the text handed to the first conversion
  date_mid,       \* the first conversion's outcome
  date_out,       \* the second conversion's outcome
  codec_first,    \* which conversion ran first
  codec_pc,
  \* ---- main(): the interactive loop
  repo,            \* the repository's history, newest commit first
  repo_version,    \* how many rewrites have changed the history
  log_version,     \* repo_version when output_lines was read
  iteration,       \* the number of the current loop iteration
  pc,              \* where main() stands
  commits,
  selected_commit, \* <<>> for None, else <<commit>>
  chosen_date,     \* what the text prompt returned
  input_date,      \* what convert_input_date_to_commit_date returned
  confirm_change,
  printed,         \* what the current iteration printed on the console
  stderr,          \* what the current iteration wrote to stderr
  rewrite_call     \* the set_git_date call of the current iteration, if any

parser_vars == <<entries, log_style, cmd_outcome, output_lines, parse_result,
                 parser_pc>>
codec_vars == <<date_parts, date_in, date_mid, date_out, codec_first, codec_pc>>
main_vars == <<repo, repo_version, log_version, iteration, pc, commits,
               selected_commit, chosen_date, input_date, confirm_change,
               printed, stderr, rewrite_call>>

(***************************************************************************)
(* Python str primitives                                                   *)
(***************************************************************************)
Char(s, i) == SubSeq(s, i, i)

Slice(s, m, n) == IF m > n THEN "" ELSE SubSeq(s, m, n)

IsSpace(c) == c \in {" ", "\t"}

Min(S) == CHOOSE x \in S : \A y \in S : x <= y

Max(S) == CHOOSE x \in S : \A y \in S : x >= y

\* the k-th smallest element of a set of integers
Kth(S, k) == CHOOSE x \in S : Cardinality({y \in S : y < x}) = k - 1

\* str.startswith
StartsWith(s, p) == Len(s) >= Len(p) /\ Slice(s, 1, Len(p)) = p

\* str.strip()
Strip(s) ==
  LET ink == {i \in 1..Len(s) : ~IsSpace(Char(s, i))}
  IN  IF ink = {} THEN "" ELSE Slice(s, Min(ink), Max(ink))

\* str.split(): the maximal runs of non-whitespace
SplitWS(s) ==
  LET ink == {i \in 1..Len(s) : ~IsSpace(Char(s, i))}
      starts == {i \in ink : i = 1 \/ (i - 1) \notin ink}
      ends == {i \in ink : i = Len(s) \/ (i + 1) \notin ink}
  IN  [k \in 1..Cardinality(starts) |-> Slice(s, Kth(starts, k), Kth(ends, k))]

\* str.split(sep) for a one-character separator: empty pieces are kept
SplitOn(s, sep) ==
  LET at == {i \in 1..Len(s) : Char(s, i) = sep}
      n == Cardinality(at)
      cut(k) == IF k = 0 THEN 0 ELSE IF k = n + 1 THEN Len(s) + 1 ELSE Kth(at, k)
  IN  [k \in 1..(n + 1) |-> Slice(s, cut(k - 1) + 1, cut(k) - 1)]

\* str.split(sep, 1)
SplitFirst(s, sep) ==
  LET at == {i \in 1..Len(s) : Char(s, i) = sep}
  IN  IF at = {} THEN <<s>>
      ELSE <<Slice(s, 1, Min(at) - 1), Slice(s, Min(at) + 1, Len(s))>>

\* "\n".join(lines)
RECURSIVE JoinLines(_)
JoinLines(lines) ==
  IF lines = <<>> THEN ""
  ELSE IF Len(lines) = 1 THEN lines[1]
  ELSE lines[1] \o "\n" \o JoinLines(Tail(lines))

RECURSIVE Flatten(_)
Flatten(ss) == IF ss = <<>> THEN <<>> ELSE ss[1] \o Flatten(Tail(ss))

(***************************************************************************)
(* parse_git_log and create_commit                                         *)
(***************************************************************************)
NoException == "none"

\* Python's dict: a function whose domain is the set of keys present
EmptyDict == <<>>

DictSet(d, k, v) == (k :> v) @@ d

\* re.match(r"Author: (.+) <(.+)>", line): both groups are greedy, so the
\* name ends at the last " <" that a ">" can still follow, and the email
\* at the last ">".  The result is the pair of groups, or <<>> for None.
AuthorMatch(line) ==
  LET opens == {j \in 10..(Len(line) - 3) :
                  /\ Slice(line, j, j + 1) = " <"
                  /\ \E k \in (j + 3)..Len(line) : Char(line, k) = ">"}
  IN  IF ~StartsWith(line, "Author: ") \/ opens = {} THEN <<>>
      ELSE LET j == Max(opens)
               k == Max({c \in (j + 3)..Len(line) : Char(line, c) = ">"})
           IN  <<Slice(line, 9, j - 1), Slice(line, j + 2, k - 1)>>

CommitKeys == {"hash", "name", "email", "date", "subject"}

\* create_commit: every data[...] lookup raises KeyError on a missing key
create_commit(data) ==
  IF CommitKeys \subseteq DOMAIN data
  THEN [raised |-> NoException,
        commit |-> [hash |-> data["hash"], name |-> data["name"],
                    email |-> data["email"], date |-> data["date"],
                    subject |-> data["subject"]]]
  ELSE [raised |-> "KeyError", commit |-> <<>>]

\* a subject kept with its indentation
SubjectUnstripped(data, line) == DictSet(data, "subject", line)

\* commit_data["subject"] = line.strip()
SubjectUpdate(data, line) == DictSet(data, "subject", Strip(line))

\* commits.append(create_commit(commit_data)), on the list cs
AppendCommit(cs, data) ==
  LET c == create_commit(data)
  IN  IF c.raised = NoException
      THEN [raised |-> NoException, commits |-> Append(cs, c.commit)]
      ELSE [raised |-> c.raised, commits |-> cs]

\* the for loop of parse_git_log from line i on, then the final append
RECURSIVE ParseLoop(_, _, _, _)
ParseLoop(lines, i, cs, data) ==
  IF i > Len(lines)
  THEN IF data # EmptyDict THEN AppendCommit(cs, data)
       ELSE [raised |-> NoException, commits |-> cs]
  ELSE
    LET line == lines[i]
    IN  IF StartsWith(line, "commit")
        THEN LET done == IF data # EmptyDict THEN AppendCommit(cs, data)
                         ELSE [raised |-> NoException, commits |-> cs]
                 words == SplitWS(line)
             IN  IF done.raised # NoException THEN done
                 ELSE IF Len(words) < 2
                 THEN [raised |-> "IndexError", commits |-> done.commits]
                 ELSE ParseLoop(lines, i + 1, done.commits,
                                DictSet(EmptyDict, "hash", words[2]))
        ELSE IF StartsWith(line, "Author:")
        THEN LET m == AuthorMatch(line)
             IN  IF m # <<>>
                 THEN ParseLoop(lines, i + 1, cs,
                                DictSet(DictSet(data, "name", Strip(m[1])),
                                        "email", Strip(m[2])))
                 ELSE ParseLoop(lines, i + 1, cs, data)
        ELSE IF StartsWith(line, "Date:")
        THEN ParseLoop(lines, i + 1, cs,
                       DictSet(data, "date", Strip(SplitFirst(line, ":")[2])))
        ELSE IF Strip(line) # ""
        THEN ParseLoop(lines, i + 1, cs, SubjectUpdate(data, line))
        ELSE ParseLoop(lines, i + 1, cs, data)

parse_git_log(lines) ==
  IF lines = <<>> THEN [raised |-> NoException, commits |-> <<>>]
  ELSE ParseLoop(lines, 1, <<>>, EmptyDict)

GIT_LOG_CMD == "git log --pretty"

Outcomes == {"ok", "failed", "timeout"}

\* execute_system_command: (stdout, False) when the command exits with 0,
\* (str(e.output), True) when it exits with another status, having printed
\* nothing to stdout, and (error_msg, True) when it is killed by the timeout
execute_system_command(cmd, stdout, outcome, timeout) ==
  IF outcome = "ok" THEN [out |-> stdout, error_occurred |-> FALSE]
  ELSE IF outcome = "failed" THEN [out |-> "b''", error_occurred |-> TRUE]
  ELSE [out |-> "Command '" \o cmd \o "' killed by timeout (" \o timeout \o "s)",
        error_occurred |-> TRUE]

\* a get_git_log that forgets the error indicator
GetGitLogIgnoringError(r) == SplitOn(r.out, "\n")

\* get_git_log: the command's stdout split into lines, or [] on failure
get_git_log(r) == IF ~r.error_occurred THEN SplitOn(r.out, "\n") ELSE <<>>

(***************************************************************************)
(* datetime.strptime / datetime.strftime, as the two conversions use them  *)
(***************************************************************************)
\* an optional str: Python's None, or a str
None == [none |-> TRUE, text |-> ""]

Str(t) == [none |-> FALSE, text |-> t]

Digits == "0123456789"

IsDigit(c) == \E n \in 1..10 : Char(Digits, n) = c

DigitVal(c) == (CHOOSE n \in 1..10 : Char(Digits, n) = c) - 1

AllDigits(t) == t # "" /\ \A i \in 1..Len(t) : IsDigit(Char(t, i))

\* int(t) for a string of decimal digits
RECURSIVE NumVal(_)
NumVal(t) ==
  IF t = "" THEN 0
  ELSE NumVal(Slice(t, 1, Len(t) - 1)) * 10 + DigitVal(Char(t, Len(t)))

\* "%d" % n for n >= 0
RECURSIVE NumStr(_)
NumStr(n) ==
  IF n < 10 THEN Char(Digits, n + 1)
  ELSE NumStr(n \div 10) \o Char(Digits, (n % 10) + 1)

\* "%02d" % n
Pad2(n) == IF n < 10 THEN "0" \o NumStr(n) ELSE NumStr(n)

UpperLetters == "ABCDEFGHIJKLMNOPQRSTUVWXYZ"

LowerLetters == "abcdefghijklmnopqrstuvwxyz"

LowerChar(c) ==
  IF \E i \in 1..26 : Char(UpperLetters, i) = c
  THEN Char(LowerLetters, CHOOSE i \in 1..26 : Char(UpperLetters, i) = c)
  ELSE c

RECURSIVE Lower(_)
Lower(t) == IF t = "" THEN "" ELSE LowerChar(Char(t, 1)) \o Lower(Slice(t, 2, Len(t)))

\* calendar.day_abbr and calendar.month_abbr of the C locale
Weekdays == <<"Mon", "Tue", "Wed", "Thu", "Fri", "Sat", "Sun">>

Months == <<"Jan", "Feb", "Mar", "Apr", "May", "Jun",
            "Jul", "Aug", "Sep", "Oct", "Nov", "Dec">>

\* the regex of %a and %b is made of the lower-cased names and matches
\* without regard to case
WeekdaysLower == [j \in 1..7 |-> Lower(Weekdays[j])]

MonthsLower == [j \in 1..12 |-> Lower(Months[j])]

IsLeap(y) == y % 4 = 0 /\ (y % 100 # 0 \/ y % 400 = 0)

DaysInMonth(y, m) ==
  IF m = 2 THEN (IF IsLeap(y) THEN 29 ELSE 28)
  ELSE IF m \in {4, 6, 9, 11} THEN 30 ELSE 31

RECURSIVE DaysBeforeMonth(_, _)
DaysBeforeMonth(y, m) ==
  IF m = 1 THEN 0 ELSE DaysBeforeMonth(y, m - 1) + DaysInMonth(y, m - 1)

\* date.toordinal(): 1 for 0001-01-01
Ordinal(y, m, d) ==
  ((y - 1) * 365) + ((y - 1) \div 4) - ((y - 1) \div 100) + ((y - 1) \div 400)
  + DaysBeforeMonth(y, m) + d

\* date.weekday(): 0 for Monday
WeekdayOf(y, m, d) == (Ordinal(y, m, d) + 6) % 7

\* the two format strings, element by element; " " is the regex \s+ that
\* strptime makes of a blank in the format
COMMIT_FORMAT == <<"a", " ", "b", " ", "d", " ", "H", ":", "M", ":", "S", " ",
                   "Y", " ", "z">>

INPUT_FORMAT == <<"Y", ".", "m", ".", "d", " ", "H", ":", "M", ":", "S", " ", "z">>

\* the regex of each numeric directive, as a test of the matched text:
\*   d: 3[0-1]|[1-2]\d|0[1-9]|[1-9]| [1-9]     m: 1[0-2]|0[1-9]|[1-9]
\*   H: 2[0-3]|[0-1]\d|\d    M: [0-5]\d|\d    S: 6[0-1]|[0-5]\d|\d    Y: \d\d\d\d
NumberOk(x, t) ==
  IF x = "Y" THEN Len(t) = 4 /\ AllDigits(t)
  ELSE IF x = "d" /\ Len(t) = 2 /\ Char(t, 1) = " "
  THEN IsDigit(Char(t, 2)) /\ Char(t, 2) # "0"
  ELSE /\ AllDigits(t)
       /\ Len(t) \in {1, 2}
       /\ LET v == NumVal(t)
          IN  CASE x = "d" -> v \in 1..31
                [] x = "m" -> v \in 1..12
                [] x = "H" -> Len(t) = 1 \/ v <= 23
                [] x = "M" -> Len(t) = 1 \/ v <= 59
                [] x = "S" -> Len(t) = 1 \/ v <= 61

\* the regex of %z, [+-]\d\d:?[0-5]\d(:?[0-5]\d)?|Z, with the forms the
\* parsing code then rejects ("Inconsistent use of :") left out; fractions
\* of a second are not modelled
ZoneOk(t) ==
  \/ t = "Z"
  \/ /\ Len(t) \in {5, 6, 7, 9}
     /\ Char(t, 1) \in {"+", "-"}
     /\ LET colon == Len(t) \in {6, 9}
            hh == Slice(t, 2, 3)
            mm == IF colon THEN Slice(t, 5, 6) ELSE Slice(t, 4, 5)
            ss == IF Len(t) = 7 THEN Slice(t, 6, 7)
                  ELSE IF Len(t) = 9 THEN Slice(t, 8, 9) ELSE "00"
        IN  /\ AllDigits(hh) /\ AllDigits(mm) /\ AllDigits(ss)
            /\ NumVal(mm) <= 59 /\ NumVal(ss) <= 59
            /\ colon => Char(t, 4) = ":"
            /\ Len(t) = 9 => Char(t, 7) = ":"

\* gmtoff, in seconds
ZoneVal(t) ==
  IF t = "Z" THEN 0
  ELSE LET colon == Len(t) \in {6, 9}
           hh == Slice(t, 2, 3)
           mm == IF colon THEN Slice(t, 5, 6) ELSE Slice(t, 4, 5)
           ss == IF Len(t) = 7 THEN Slice(t, 6, 7)
                 ELSE IF Len(t) = 9 THEN Slice(t, 8, 9) ELSE "00"
           off == (NumVal(hh) * 3600) + (NumVal(mm) * 60) + NumVal(ss)
       IN  IF Char(t, 1) = "-" THEN 0 - off ELSE off

\* every way format element x matches s from position p: the position
\* after the match and the value found
ElementMatches(x, s, p) ==
  LET piece(n) == Slice(s, p, p + n - 1)
      fits(n) == p + n - 1 <= Len(s)
  IN  IF x = " "
      THEN {[pos |-> q, val |-> 0] : q \in {r \in (p + 1)..(Len(s) + 1) :
                                      \A i \in p..(r - 1) : IsSpace(Char(s, i))}}
      ELSE IF x \in {".", ":"}
      THEN IF fits(1) /\ piece(1) = x THEN {[pos |-> p + 1, val |-> 0]} ELSE {}
      ELSE IF x = "a"
      THEN LET name == Lower(piece(3))
           IN  {[pos |-> p + 3, val |-> i] : i \in {j \in 1..7 :
                  fits(3) /\ name = WeekdaysLower[j]}}
      ELSE IF x = "b"
      THEN LET name == Lower(piece(3))
           IN  {[pos |-> p + 3, val |-> i] : i \in {j \in 1..12 :
                  fits(3) /\ name = MonthsLower[j]}}
      ELSE IF x = "z"
      THEN {[pos |-> p + n, val |-> ZoneVal(piece(n))] :
              n \in {k \in {1, 5, 6, 7, 9} : fits(k) /\ ZoneOk(piece(k))}}
      ELSE {[pos |-> p + n, val |-> NumVal(Strip(piece(n)))] :
              n \in {k \in {1, 2, 4} : fits(k) /\ NumberOk(x, piece(k))}}

\* the matches of the whole format regex: the states after element k
RECURSIVE FormatMatches(_, _, _, _)
FormatMatches(fmt, k, s, states) ==
  IF k > Len(fmt) THEN states
  ELSE FormatMatches(fmt, k + 1, s,
         UNION {{[pos |-> m.pos, f |-> DictSet(st.f, fmt[k], m.val)] :
                   m \in ElementMatches(fmt[k], s, st.pos)} : st \in states})

\* a failed parse that hands back a default date
ParseFailsAsEpoch(kind) ==
  [raised |-> NoException,
   dt |-> [year |-> 1970, month |-> 1, day |-> 1, hour |-> 0, minute |-> 0,
           second |-> 0, utcoffset |-> 0]]

\* a failed parse raises
ParseFails(kind) == [raised |-> kind, dt |-> <<>>]

\* datetime.strptime(date_string, format): the aware datetime, or the
\* exception.  The weekday %a finds is matched and then not used.
strptime(date_string, fmt) ==
  IF date_string.none THEN ParseFails("TypeError")
  ELSE
    LET s == date_string.text
        all == FormatMatches(fmt, 1, s, {[pos |-> 1, f |-> EmptyDict]})
        whole == {st \in all : st.pos = Len(s) + 1}
    IN  IF whole = {} THEN ParseFails("ValueError")
        ELSE
          LET f == (CHOOSE st \in whole : TRUE).f
              month == IF "b" \in DOMAIN f THEN f["b"] ELSE f["m"]
          IN  IF \/ f["Y"] < 1
                 \/ f["d"] > DaysInMonth(f["Y"], month)
                 \/ f["S"] > 59
                 \/ f["z"] >= 86400 \/ f["z"] <= -86400
              THEN ParseFails("ValueError")
              ELSE [raised |-> NoException,
                    dt |-> [year |-> f["Y"], month |-> month, day |-> f["d"],
                            hour |-> f["H"], minute |-> f["M"],
                            second |-> f["S"], utcoffset |-> f["z"]]]

\* %z of strftime: sign, hours, minutes, and the seconds when not zero
ZoneStr(off) ==
  LET a == IF off < 0 THEN 0 - off ELSE off
      hhmm == Pad2(a \div 3600) \o Pad2((a % 3600) \div 60)
  IN  (IF off < 0 THEN "-" ELSE "+") \o hhmm
      \o (IF a % 60 # 0 THEN Pad2(a % 60) ELSE "")

\* %d of strftime
DayStr(d) == Pad2(d)

\* a weekday taken from isoweekday(), 1 for Monday, without the shift
WeekdayOffByOne(dt) == Weekdays[((WeekdayOf(dt.year, dt.month, dt.day) + 1) % 7) + 1]

\* %a of strftime
WeekdayStr(dt) == Weekdays[WeekdayOf(dt.year, dt.month, dt.day) + 1]

TimeStr(dt) == Pad2(dt.hour) \o ":" \o Pad2(dt.minute) \o ":" \o Pad2(dt.second)

\* dt.strftime("%Y.%m.%d %H:%M:%S %z"); glibc's %Y does not pad
strftime_input(dt) ==
  NumStr(dt.year) \o "." \o Pad2(dt.month) \o "." \o DayStr(dt.day) \o " "
  \o TimeStr(dt) \o " " \o ZoneStr(dt.utcoffset)

\* dt.strftime("%a %b %d %H:%M:%S %Y %z")
strftime_commit(dt) ==
  WeekdayStr(dt) \o " " \o Months[dt.month] \o " " \o DayStr(dt.day) \o " "
  \o TimeStr(dt) \o " " \o NumStr(dt.year) \o " " \o ZoneStr(dt.utcoffset)

convert_commit_date_to_input_date(date_string) ==
  LET p == strptime(date_string, COMMIT_FORMAT)
  IN  IF p.raised # NoException THEN [raised |-> p.raised, value |-> ""]
      ELSE [raised |-> NoException, value |-> strftime_input(p.dt)]

convert_input_date_to_commit_date(date_string) ==
  LET p == strptime(date_string, INPUT_FORMAT)
  IN  IF p.raised # NoException THEN [raised |-> p.raised, value |-> ""]
      ELSE [raised |-> NoException, value |-> strftime_commit(p.dt)]

(***************************************************************************)
(* The histories the log command prints                                    *)
(***************************************************************************)
MaxEntries == 2

Shapes == {"wellformed", "badauthor", "emptyemail", "nodate", "nosubject",
           "twobody", "nohash", "blankline"}

People ==
  { [hash |-> "abc123", name |-> "Jane Doe", email |-> "jane@example.com",
     date |-> "Tue Oct 8 11:59:23 2024 +0300", subject |-> "Fix bug",
     body |-> "commit fix"],
    [hash |-> "def456", name |-> "John <JR> Roe", email |-> "john@example.com",
     date |-> "Mon Oct 7 10:00:00 2024 +0300", subject |-> "Add feature",
     body |-> "Longer text"] }

EntrySet == {[shape |-> sh, f |-> p] : sh \in Shapes, p \in People}

\* the lines `git log --pretty` prints for one entry
RenderEntry(e) ==
  LET f == e.f
      commitLine == IF e.shape = "nohash" THEN "commit" ELSE "commit " \o f.hash
      authorLine == IF e.shape = "badauthor" THEN "Author: " \o f.name
                    ELSE IF e.shape = "emptyemail" THEN "Author: " \o f.name \o " <>"
                    ELSE "Author: " \o f.name \o " <" \o f.email \o ">"
      dateLines == IF e.shape = "nodate" THEN <<>> ELSE <<"Date:   " \o f.date>>
      bodyLines == IF e.shape = "nosubject" THEN <<"">>
                   ELSE IF e.shape = "twobody"
                   THEN <<"", "    " \o f.subject, "", "    " \o f.body>>
                   ELSE <<"", "    " \o f.subject>>
  IN  IF e.shape = "blankline" THEN <<"   ">>
      ELSE <<commitLine, authorLine>> \o dateLines \o bodyLines

\* the entries back to back, as in the documented input format
RenderLog(es) == Flatten([i \in 1..Len(es) |-> RenderEntry(es[i])])

\* the entries as git prints them: a blank line between two entries
RenderGitLog(es) ==
  Flatten([i \in 1..Len(es) |->
             RenderEntry(es[i]) \o (IF i < Len(es) THEN <<"">> ELSE <<>>)])

\* the stdout of the log command: every line ends with a newline
LogOutput(es, style) ==
  IF style = "plain" THEN JoinLines(RenderLog(es))
  ELSE IF es = <<>> THEN ""
  ELSE JoinLines(RenderGitLog(es)) \o "\n"

EntrySeqs == UNION {[1..n -> EntrySet] : n \in 0..MaxEntries}

(***************************************************************************)
(* The date texts handed to the codec                                      *)
(***************************************************************************)
SourceParts ==
  [layout : {"source"}, wd : {"Tue", "Mon", "Thu", "tue"}, mon : {"Oct", "Feb"},
   day : {"8", "08", " 8", "29", "30"}, time : {"11:59:23", "1:02:03"},
   year : {"2024", "2023", "0999"}, off : {"+0300", "-0000", "-2359", "+03:00"},
   raw : {""}]

EditableParts ==
  [layout : {"editable"}, wd : {""}, mon : {"10", "02", "2"},
   day : {"08", "8", "29", "30"}, time : {"11:59:23", "1:02:03"},
   year : {"2024", "2023", "0999"}, off : {"+0300", "-0000", "-2359", "+03:00"},
   raw : {""}]

OtherParts ==
  [layout : {"other"}, wd : {""}, mon : {""}, day : {""}, time : {""},
   year : {""}, off : {""},
   raw : {"not a date", "", "Tue Oct 8 11:59:23 2024", "2024.10.08 11:59:23",
          "2024-10-08 11:59:23 +0300", "2024.10.08 11:59:23 +0300 ",
          "Tue Oct 8 11:59:23 2024 +2500", "2024.13.08 11:59:23 +0300",
          "Tue Oct 8 11:59:61 2024 +0300", "Tue Oct 8 11:59:23 2024 +03",
          "2024.10.08 11:59 +0300", "Tue Oct eight 11:59:23 2024 +0300"}]

DateParts == SourceParts \cup EditableParts \cup OtherParts

TextOf(p) ==
  IF p.layout = "source"
  THEN p.wd \o " " \o p.mon \o " " \o p.day \o " " \o p.time \o " " \o p.year
       \o " " \o p.off
  ELSE IF p.layout = "editable"
  THEN p.year \o "." \o p.mon \o "." \o p.day \o " " \o p.time \o " " \o p.off
  ELSE p.raw

(***************************************************************************)
(* Parser run: get_git_log, then parse_git_log                             *)
(***************************************************************************)
NotRun == [raised |-> "notrun", commits |-> <<>>]

NoResult == [raised |-> "notrun", value |-> ""]

ParserIdle ==
  /\ entries = <<>>
  /\ log_style = "git"
  /\ cmd_outcome = "ok"
  /\ output_lines = <<>>
  /\ parse_result = NotRun
  /\ parser_pc = "idle"

MainIdle ==
  /\ repo = <<>>
  /\ repo_version = 0
  /\ log_version = 0
  /\ iteration = 0
  /\ pc = "idle"
  /\ commits = <<>>
  /\ selected_commit = <<>>
  /\ chosen_date = None
  /\ input_date = NoResult
  /\ confirm_change = "none"
  /\ printed = <<>>
  /\ stderr = <<>>
  /\ rewrite_call = <<>>

CodecIdle ==
  /\ date_parts = [layout |-> "other", wd |-> "", mon |-> "", day |-> "",
                   time |-> "", year |-> "", off |-> "", raw |-> ""]
  /\ date_in = ""
  /\ date_mid = NoResult
  /\ date_out = NoResult
  /\ codec_first = "none"
  /\ codec_pc = "idle"

vars == <<parser_vars, codec_vars, main_vars>>

InitParser ==
  /\ entries \in EntrySeqs
  /\ log_style \in {"plain", "git"}
  /\ cmd_outcome \in Outcomes
  /\ output_lines = <<>>
  /\ parse_result = NotRun
  /\ parser_pc = "log"
  /\ CodecIdle
  /\ MainIdle

\* output_lines = get_git_log(repo_path)
GetGitLog ==
  /\ parser_pc = "log"
  /\ output_lines' = get_git_log(execute_system_command(
                       GIT_LOG_CMD, LogOutput(entries, log_style), cmd_outcome, "10"))
  /\ parser_pc' = "parse"
  /\ UNCHANGED <<entries, log_style, cmd_outcome, parse_result, codec_vars,
                 main_vars>>

\* commits = parse_git_log(output_lines)
ParseGitLog ==
  /\ parser_pc = "parse"
  /\ parse_result' = parse_git_log(output_lines)
  /\ parser_pc' = "done"
  /\ UNCHANGED <<entries, log_style, cmd_outcome, output_lines, codec_vars,
                 main_vars>>

NextParser == GetGitLog \/ ParseGitLog

SpecParser == InitParser /\ [][NextParser]_vars

(***************************************************************************)
(* Codec run: one conversion of a text, then the opposite conversion of    *)
(* what the first returned                                                 *)
(***************************************************************************)
InitCodec ==
  /\ date_parts \in DateParts
  /\ date_in = TextOf(date_parts)
  /\ date_mid = NoResult
  /\ date_out = NoResult
  /\ codec_first = "none"
  /\ codec_pc = "first"
  /\ ParserIdle
  /\ MainIdle

DecodeFirst ==
  /\ codec_pc = "first"
  /\ date_mid' = convert_commit_date_to_input_date(Str(date_in))
  /\ codec_first' = "decode"
  /\ codec_pc' = "second"
  /\ UNCHANGED <<date_parts, date_in, date_out, parser_vars, main_vars>>

EncodeFirst ==
  /\ codec_pc = "first"
  /\ date_mid' = convert_input_date_to_commit_date(Str(date_in))
  /\ codec_first' = "encode"
  /\ codec_pc' = "second"
  /\ UNCHANGED <<date_parts, date_in, date_out, parser_vars, main_vars>>

EncodeSecond ==
  /\ codec_pc = "second"
  /\ codec_first = "decode"
  /\ date_mid.raised = NoException
  /\ date_out' = convert_input_date_to_commit_date(Str(date_mid.value))
  /\ codec_pc' = "done"
  /\ UNCHANGED <<date_parts, date_in, date_mid, codec_first, parser_vars, main_vars>>

DecodeSecond ==
  /\ codec_pc = "second"
  /\ codec_first = "encode"
  /\ date_mid.raised = NoException
  /\ date_out' = convert_commit_date_to_input_date(Str(date_mid.value))
  /\ codec_pc' = "done"
  /\ UNCHANGED <<date_parts, date_in, date_mid, codec_first, parser_vars, main_vars>>

NextCodec == DecodeFirst \/ EncodeFirst \/ EncodeSecond \/ DecodeSecond

SpecCodec == InitCodec /\ [][NextCodec]_vars

(***************************************************************************)
(* main(): the interactive loop over a repository                          *)
(***************************************************************************)
MaxIterations == 2

\* the histories main() starts on: commits as the log command prints them
Histories ==
  {es \in EntrySeqs :
     /\ \A i \in 1..Len(es) : es[i].shape \in {"wellformed", "emptyemail"}
     /\ \A i, j \in 1..Len(es) : i # j => es[i].f.hash # es[j].f.hash}

\* what the user may leave in the text prompt, besides the default: an
\* edited date, a text that is no date, and None when the prompt is cancelled
EditedDates == {Str("2024.10.09 12:00:00 +0300"), Str("not a date"), None}

Answers == {"yes", "no", "none"}

\* git prints a commit's date with the day of month unpadded
GitDateText(text) ==
  LET p == strptime(Str(text), COMMIT_FORMAT)
  IN  IF p.raised # NoException THEN text
      ELSE WeekdayStr(p.dt) \o " " \o Months[p.dt.month] \o " " \o NumStr(p.dt.day)
           \o " " \o TimeStr(p.dt) \o " " \o NumStr(p.dt.year) \o " "
           \o ZoneStr(p.dt.utcoffset)

\* git filter-branch --env-filter with GIT_SET_DATE_TEMPLATE: the commit
\* with that hash gets the new date, and it and every commit above it get
\* new hashes; a hash the history does not hold changes nothing
Rewritten(history, hash, new_date) ==
  IF \A k \in 1..Len(history) : history[k].f.hash # hash THEN history
  ELSE LET at == CHOOSE k \in 1..Len(history) : history[k].f.hash = hash
       IN  [k \in 1..Len(history) |->
              IF k > at THEN history[k]
              ELSE [history[k] EXCEPT
                      !.f.hash = @ \o "0",
                      !.f.date = IF k = at THEN GitDateText(new_date) ELSE @]]

\* an uncaught exception ends main(): the interpreter prints the traceback
Traceback(kind) == "Traceback (most recent call last): " \o kind

InitMain ==
  /\ repo \in Histories
  /\ repo_version = 0
  /\ log_version = 0
  /\ iteration = 1
  /\ pc = "log"
  /\ commits = <<>>
  /\ selected_commit = <<>>
  /\ chosen_date = None
  /\ input_date = NoResult
  /\ confirm_change = "none"
  /\ printed = <<>>
  /\ stderr = <<>>
  /\ rewrite_call = <<>>
  /\ ParserIdle
  /\ CodecIdle

\* a loop that reads the log only while it holds no commits
ReadLogOnce ==
  /\ pc = "log"
  /\ \E outcome \in Outcomes :
       LET r == execute_system_command(GIT_LOG_CMD, LogOutput(repo, "git"),
                                       outcome, "10")
           fresh == commits = <<>>
           lines == IF fresh THEN get_git_log(r) ELSE output_lines
           parsed == parse_git_log(lines)
       IN  /\ output_lines' = lines
           /\ log_version' = IF fresh THEN repo_version ELSE log_version
           /\ IF parsed.raised = NoException
              THEN /\ commits' = parsed.commits
                   /\ pc' = "select"
                   /\ stderr' = IF r.error_occurred THEN <<r.out>> ELSE <<>>
              ELSE /\ commits' = commits
                   /\ pc' = "crashed"
                   /\ stderr' = <<Traceback(parsed.raised)>>
  /\ printed' = <<>>
  /\ rewrite_call' = <<>>
  /\ selected_commit' = <<>>
  /\ chosen_date' = None
  /\ input_date' = NoResult
  /\ confirm_change' = "none"
  /\ UNCHANGED <<repo, repo_version, iteration, entries, log_style, cmd_outcome,
                 parse_result, parser_pc, codec_vars>>

\* output_lines = get_git_log(repo_path); commits = parse_git_log(output_lines)
ReadLog ==
  /\ pc = "log"
  /\ \E outcome \in Outcomes :
       LET r == execute_system_command(GIT_LOG_CMD, LogOutput(repo, "git"),
                                       outcome, "10")
           lines == get_git_log(r)
           parsed == parse_git_log(lines)
       IN  /\ output_lines' = lines
           /\ log_version' = repo_version
           /\ IF parsed.raised = NoException
              THEN /\ commits' = parsed.commits
                   /\ pc' = "select"
                   /\ stderr' = IF r.error_occurred THEN <<r.out>> ELSE <<>>
              ELSE /\ commits' = commits
                   /\ pc' = "crashed"
                   /\ stderr' = <<Traceback(parsed.raised)>>
  /\ printed' = <<>>
  /\ rewrite_call' = <<>>
  /\ selected_commit' = <<>>
  /\ chosen_date' = None
  /\ input_date' = NoResult
  /\ confirm_change' = "none"
  /\ UNCHANGED <<repo, repo_version, iteration, entries, log_style, cmd_outcome,
                 parse_result, parser_pc, codec_vars>>

\* questionary.select(...).ask() returns a commit of the list; computing the
\* text prompt's default decodes its date
SelectCommit ==
  /\ pc = "select"
  /\ \E i \in 1..Len(commits) :
       LET d == convert_commit_date_to_input_date(Str(commits[i].date))
       IN  /\ selected_commit' = <<commits[i]>>
           /\ IF d.raised = NoException
              THEN /\ pc' = "date"
                   /\ stderr' = stderr
              ELSE /\ pc' = "crashed"
                   /\ stderr' = Append(stderr, Traceback(d.raised))
  /\ UNCHANGED <<repo, repo_version, log_version, iteration, commits, chosen_date,
                 input_date, confirm_change, printed, rewrite_call, parser_vars,
                 codec_vars>>

\* questionary.select(...).ask() returns None: break.  With no choices to
\* offer the prompt may also refuse to start, which raises.
SelectNone ==
  /\ pc = "select"
  /\ selected_commit' = <<>>
  /\ \/ /\ pc' = "done"
        /\ printed' = Append(printed, "Thank you!")
        /\ stderr' = stderr
     \/ /\ commits = <<>>
        /\ pc' = "crashed"
        /\ printed' = printed
        /\ stderr' = Append(stderr, Traceback("ValueError"))
  /\ UNCHANGED <<repo, repo_version, log_version, iteration, commits, chosen_date,
                 input_date, confirm_change, rewrite_call, parser_vars, codec_vars>>

\* chosen_date = questionary.text(...).ask();
\* input_date = convert_input_date_to_commit_date(chosen_date); the panel
EnterDate ==
  /\ pc = "date"
  /\ \E text \in EditedDates \cup
                 {Str(convert_commit_date_to_input_date(
                        Str(selected_commit[1].date)).value)} :
       LET encoded == convert_input_date_to_commit_date(text)
       IN  /\ chosen_date' = text
           /\ input_date' = encoded
           /\ IF encoded.raised = NoException
              THEN /\ printed' = Append(printed, selected_commit[1].date \o " -> "
                                                 \o encoded.value)
                   /\ stderr' = stderr
                   /\ pc' = "confirm"
              ELSE /\ printed' = printed
                   /\ stderr' = Append(stderr, Traceback(encoded.raised))
                   /\ pc' = "crashed"
  /\ UNCHANGED <<repo, repo_version, log_version, iteration, commits,
                 selected_commit, confirm_change, rewrite_call, parser_vars,
                 codec_vars>>

\* a call that hands the prompt's text to the rewrite
DateToWriteAsEntered == chosen_date.text

\* the new_date argument of set_git_date(repo_path, selected_commit, input_date)
DateToWrite == input_date.value

\* confirm_change = questionary.confirm("Save changes?").ask();
\* if confirm_change: set_git_date(...), which runs the rewrite command
\* through execute_system_command and drops what it returns, and then
\* console.print("[yellow]New date saved[/yellow]").  A command killed by
\* the timeout may or may not have rewritten the history, and one that is
\* given the date the commit already has may leave the commit as it is.
ConfirmChange ==
  /\ pc = "confirm"
  /\ \E answer \in Answers :
       /\ confirm_change' = answer
       /\ IF answer = "yes"
          THEN \E outcome \in Outcomes, applied \in BOOLEAN :
                 LET r == execute_system_command("git filter-branch", "", outcome, "60")
                     same == \E k \in 1..Len(repo) :
                               /\ repo[k].f.hash = selected_commit[1].hash
                               /\ repo[k].f.date = GitDateText(DateToWrite)
                 IN  /\ applied = TRUE => outcome # "failed"
                     /\ applied = FALSE => (outcome # "ok" \/ same)
                     /\ rewrite_call' = <<[hash |-> selected_commit[1].hash,
                                           new_date |-> DateToWrite,
                                           outcome |-> outcome,
                                           log_version |-> log_version,
                                           repo_version |-> repo_version,
                                           known |-> \E k \in 1..Len(repo) :
                                             repo[k].f.hash = selected_commit[1].hash]>>
                     /\ repo' = IF applied
                                THEN Rewritten(repo, selected_commit[1].hash, DateToWrite)
                                ELSE repo
                     /\ repo_version' = IF applied THEN repo_version + 1
                                        ELSE repo_version
                     /\ stderr' = IF r.error_occurred THEN Append(stderr, r.out)
                                  ELSE stderr
                     /\ printed' = Append(printed, "New date saved")
          ELSE UNCHANGED <<rewrite_call, repo, repo_version, stderr, printed>>
  /\ pc' = "continue"
  /\ UNCHANGED <<log_version, iteration, commits, selected_commit, chosen_date,
                 input_date, parser_vars, codec_vars>>

\* confirm_continue = questionary.confirm("Continue?").ask()
ConfirmContinue ==
  /\ pc = "continue"
  /\ \/ /\ iteration < MaxIterations
        /\ iteration' = iteration + 1
        /\ pc' = "log"
        /\ printed' = printed
     \/ /\ iteration' = iteration
        /\ pc' = "done"
        /\ printed' = Append(printed, "Thank you!")
  /\ UNCHANGED <<repo, repo_version, log_version, commits, selected_commit,
                 chosen_date, input_date, confirm_change, stderr, rewrite_call,
                 parser_vars, codec_vars>>

Next == ReadLog \/ SelectCommit \/ SelectNone \/ EnterDate \/ ConfirmChange
        \/ ConfirmContinue

Spec == InitMain /\ [][Next]_vars

(***************************************************************************)
(* Properties of the parser run                                            *)
(***************************************************************************)
RecordOf(e) ==
  [hash |-> e.f.hash, name |-> e.f.name, email |-> e.f.email,
   date |-> e.f.date, subject |-> e.f.subject]

ShapesIn(S) == \A i \in 1..Len(entries) : entries[i].shape \in S

ParsedOk == parser_pc = "done" /\ cmd_outcome = "ok"

\* C1: a well-formed log of N entries parses to exactly N records, in input
\* order, the i-th carrying the hash, name, email, date and subject of the
\* i-th entry.
C1_WellFormedLogParses ==
  (ParsedOk /\ ShapesIn({"wellformed"})) =>
    parse_result = [raised |-> NoException,
                    commits |-> [i \in 1..Len(entries) |-> RecordOf(entries[i])]]

C1_Witness ==
  /\ ParsedOk /\ ShapesIn({"wellformed"})
  /\ Len(entries) = 2
  /\ Len(parse_result.commits) = 2
  /\ parse_result.commits[1].hash # parse_result.commits[2].hash
  /\ parse_result.commits[2].name = "John <JR> Roe"

\* the record the claim expects of a degraded entry: empty strings for the
\* fields that could not be extracted
DegradedRecordOf(e) ==
  [hash |-> e.f.hash,
   name |-> IF e.shape \in {"badauthor", "emptyemail"} THEN "" ELSE e.f.name,
   email |-> IF e.shape \in {"badauthor", "emptyemail"} THEN "" ELSE e.f.email,
   date |-> IF e.shape = "nodate" THEN "" ELSE e.f.date,
   subject |-> IF e.shape = "nosubject" THEN "" ELSE e.f.subject]

\* C2: parse_git_log never raises on malformed input, and an entry whose
\* Author line does not match (or which lacks a Date or subject line) still
\* yields a record, with empty strings for the missing fields and the hash,
\* date and subject preserved.
C2_NeverRaises ==
  /\ parser_pc = "done" => parse_result.raised = NoException
  /\ (ParsedOk /\ ShapesIn({"wellformed", "badauthor", "emptyemail", "nodate",
                           "nosubject"})) =>
       parse_result.commits = [i \in 1..Len(entries) |-> DegradedRecordOf(entries[i])]

\* C3: the subject of every record is the first non-blank line after the
\* header lines; further non-blank lines before the next commit line do not
\* change it.
C3_SubjectIsFirstLine ==
  (ParsedOk /\ ShapesIn({"wellformed", "twobody"})) =>
    /\ Len(parse_result.commits) = Len(entries)
    /\ \A i \in 1..Len(entries) :
         parse_result.commits[i].subject = entries[i].f.subject

\* C8: parse_git_log returns an empty sequence, without error, for an empty
\* list of lines, for a list holding only an empty or blank line, and for
\* the [] that get_git_log returns when the log command fails or times out.
C8_EmptyInputParsesToNothing ==
  parser_pc = "done" =>
    /\ cmd_outcome # "ok" => output_lines = <<>>
    /\ (Len(output_lines) <= 1 /\ \A i \in 1..Len(output_lines) :
                                      Strip(output_lines[i]) = "") =>
         parse_result = [raised |-> NoException, commits |-> <<>>]

C8_Witness ==
  /\ parser_pc = "done"
  /\ cmd_outcome = "timeout"
  /\ entries # <<>>
  /\ output_lines = <<>>
  /\ parse_result = [raised |-> NoException, commits |-> <<>>]

(***************************************************************************)
(* Properties of the codec run                                             *)
(***************************************************************************)
\* what the pieces of the input text say, read off the pieces themselves
MonthNum(p) == IF p.mon \in {"Oct", "10"} THEN 10 ELSE 2

MonthName(p) == IF MonthNum(p) = 10 THEN "Oct" ELSE "Feb"

DayNum(p) == IF p.day = "29" THEN 29 ELSE IF p.day = "30" THEN 30 ELSE 8

YearNum(p) == IF p.year = "2024" THEN 2024 ELSE IF p.year = "2023" THEN 2023 ELSE 999

ValidCalendar(p) ==
  MonthNum(p) = 10 \/ DayNum(p) = 8 \/ (DayNum(p) = 29 /\ YearNum(p) = 2024)

\* the weekday of each date of the input set, from the calendar
TrueWeekday(p) ==
  LET y == YearNum(p)
      m == MonthNum(p)
      d == DayNum(p)
  IN  IF m = 10 /\ d \in {8, 29} THEN (IF y = 2023 THEN "Sun" ELSE "Tue")
      ELSE IF m = 10 THEN (IF y = 2023 THEN "Mon" ELSE "Wed")
      ELSE IF y = 2024 THEN "Thu"
      ELSE IF y = 2023 THEN "Wed" ELSE "Fri"

\* the source layout: three-letter weekday and month, day with or without
\* padding, HH:MM:SS, four-digit year, signed four-digit offset
InSourceLayout(p) ==
  /\ p.layout = "source"
  /\ p.wd \in {"Tue", "Mon", "Thu"}
  /\ p.time = "11:59:23"
  /\ p.off \in {"+0300", "-0000", "-2359"}

\* the editable layout: YYYY.MM.DD HH:MM:SS and a signed four-digit offset
InEditableLayout(p) ==
  /\ p.layout = "editable"
  /\ p.mon \in {"10", "02"}
  /\ p.day \in {"08", "29", "30"}
  /\ p.time = "11:59:23"
  /\ p.off \in {"+0300", "-0000", "-2359"}

InExpectedLayout(p) ==
  IF codec_first = "decode" THEN InSourceLayout(p) ELSE InEditableLayout(p)

PaddedDay(p) == IF DayNum(p) = 8 THEN "08" ELSE p.day

UnpaddedDay(p) == IF DayNum(p) = 8 THEN "8" ELSE p.day

\* a source text with its day of month zero-padded
PaddedSourceText(p) ==
  p.wd \o " " \o p.mon \o " " \o PaddedDay(p) \o " " \o p.time \o " " \o p.year
  \o " " \o p.off

FirstDone == codec_pc \in {"second", "done"}

\* C4 as stated: both round trips give the text back, up to zero-padding of
\* the day of month, for every text in the source (editable) layout.
C4_RoundTripEveryLayoutText ==
  /\ (FirstDone /\ InExpectedLayout(date_parts) /\ ValidCalendar(date_parts)) =>
       date_mid.raised = NoException
  /\ (codec_pc = "done" /\ codec_first = "decode" /\ InSourceLayout(date_parts)) =>
       date_out = [raised |-> NoException, value |-> PaddedSourceText(date_parts)]
  /\ (codec_pc = "done" /\ codec_first = "encode" /\ InEditableLayout(date_parts)) =>
       date_out = [raised |-> NoException, value |-> date_in]

\* the texts the round trip does give back: the weekday written is the
\* weekday of the date, the offset is not the negative zero, and the year
\* has four significant digits
RoundTrips(p) ==
  /\ ValidCalendar(p)
  /\ p.layout = "source" => p.wd = TrueWeekday(p)
  /\ p.off # "-0000"
  /\ YearNum(p) >= 1000

\* C4 amended: for a valid date in the source layout whose weekday is the
\* weekday of that date, whose offset is not -0000 and whose year is at
\* least 1000, encoding the decoded text gives the text back with its day
\* of month zero-padded; for a valid date in the editable layout whose
\* offset is not -0000 and whose year is at least 1000, decoding the
\* encoded text gives the text back unchanged.
C4_RoundTripOfConsistentDates ==
  /\ (FirstDone /\ InExpectedLayout(date_parts) /\ RoundTrips(date_parts)) =>
       date_mid.raised = NoException
  /\ (codec_pc = "done" /\ codec_first = "decode" /\ InSourceLayout(date_parts)
      /\ RoundTrips(date_parts)) =>
       date_out = [raised |-> NoException, value |-> PaddedSourceText(date_parts)]
  /\ (codec_pc = "done" /\ codec_first = "encode" /\ InEditableLayout(date_parts)
      /\ RoundTrips(date_parts)) =>
       date_out = [raised |-> NoException, value |-> date_in]

C4_Witness ==
  /\ codec_pc = "done" /\ codec_first = "decode"
  /\ date_in = "Tue Oct 8 11:59:23 2024 +0300"
  /\ date_mid.value = "2024.10.08 11:59:23 +0300"
  /\ date_out.value = "Tue Oct 08 11:59:23 2024 +0300"

\* C5: for every valid editable date, the encoded text is the source-layout
\* text of the same date, time and offset, with the weekday of that date and
\* the day of month written as in "Tue Oct 8 11:59:23 2024 +0300".
C5_EncodesToSourceLiteral ==
  (FirstDone /\ codec_first = "encode" /\ InEditableLayout(date_parts)
   /\ ValidCalendar(date_parts)) =>
    date_mid = [raised |-> NoException,
                value |-> TrueWeekday(date_parts) \o " " \o MonthName(date_parts)
                          \o " " \o UnpaddedDay(date_parts) \o " "
                          \o date_parts.time \o " " \o date_parts.year \o " "
                          \o date_parts.off]

\* C6 as stated: a text that is not in the expected layout makes the
\* conversion fail with DateFormatError and return nothing.
C6_FailsWithDateFormatError ==
  (FirstDone /\ ~InExpectedLayout(date_parts)) =>
    date_mid = [raised |-> "DateFormatError", value |-> ""]

\* the texts strptime can read with the conversion's format
Readable(p) ==
  /\ p.layout = (IF codec_first = "decode" THEN "source" ELSE "editable")
  /\ ValidCalendar(p)

\* C6 amended: both conversions raise ValueError, and return nothing, on
\* every text strptime cannot read with their format (the other layout's
\* text, a wrong number of fields, non-numeric fields, an unreadable offset,
\* a day the month does not have); they raise nothing else on a text and
\* never return a default date.
C6_FailsWithValueError ==
  /\ (FirstDone /\ ~Readable(date_parts)) =>
       date_mid = [raised |-> "ValueError", value |-> ""]
  /\ (FirstDone /\ Readable(date_parts)) =>
       (date_mid.raised = NoException /\ date_mid.value # "")
  /\ codec_pc = "done" => date_out.raised \in {NoException, "ValueError"}

C6_Witness ==
  /\ FirstDone
  /\ date_in = "not a date"
  /\ date_mid = [raised |-> "ValueError", value |-> ""]

(***************************************************************************)
(* Properties of the main loop                                             *)
(***************************************************************************)
EncodingFailed == input_date.raised \notin {NoException, "notrun"}

C9_SavedOnlyAfterSuccess ==
  (\E i \in 1..Len(printed) : printed[i] = "New date saved") =>
    (rewrite_call # <<>> /\ rewrite_call[1].outcome = "ok")

\* C10: every iteration re-reads and re-parses the log before presenting
\* choices, so the record whose hash is passed to a rewrite comes from the
\* log read in that same iteration, after every earlier rewrite.
C10_RewriteUsesFreshLog ==
  /\ pc \in {"select", "date", "confirm"} => log_version = repo_version
  /\ rewrite_call # <<>> =>
       /\ rewrite_call[1].log_version = rewrite_call[1].repo_version
       /\ rewrite_call[1].known
       /\ \E i \in 1..Len(commits) : commits[i] = selected_commit[1]

C10_Witness ==
  /\ iteration = 2
  /\ rewrite_call # <<>>
  /\ rewrite_call[1].repo_version = 1
  /\ rewrite_call[1].hash = "abc1230"
  /\ rewrite_call[1].known

====
